---- MODULE Spec2Model ----
(***************************************************************************)
(* A model of the juul interpreter: src/src/lexer.rs (lex),                *)
(* src/src/parser.rs (parse) and src/src/main.rs (main, interpret,         *)
(* Environment, execute, evaluate).                                        *)
(*                                                                         *)
(* Two specifications share the variables:                                 *)
(*   SpecLex  runs lex over source strings, one loop iteration per step;   *)
(*   Spec     runs main from a lexed token sequence: the parser's          *)
(*            statement loops one iteration per step, then interpret's     *)
(*            loop one top-level statement per step.                       *)
(***************************************************************************)
EXTENDS Integers, Sequences, FiniteSets, TLC

VARIABLES
    pc,          \* position in main / lex: "lex", "lexed", "parse", "interpret", "done"
    input,       \* lex: the source string lex is called with
    chars,       \* lex: the characters not yet consumed (Peekable<Chars>)
    tokens,      \* lex: the Vec<Token> built so far; main: the lexed tokens
    pos,         \* parse: index of the token the Peekable<Iter<Token>> is at
    pstack,      \* parse: the parser's call frames (parse, then open blocks)
    ast_nodes,   \* interpret: the statements not yet executed
    global_env,  \* interpret: the root Environment
    functions,   \* interpret: the function table
    out,         \* lines written by println!
    err,         \* messages written by eprintln!
    trace        \* history: one event per execute / evaluate step that finished

vars == <<pc, input, chars, tokens, pos, pstack, ast_nodes, global_env, functions, out, err, trace>>

-----------------------------------------------------------------------------
(* Bounds of the model.                                                    *)

\* longest source string SpecLex enumerates exhaustively
MaxSrcLen == 3
\* most program fragments Spec concatenates into one program
MaxFragments == 2
\* most statements the parser's block loop collects before the model stops it
MaxBlockLen == 3
\* longest token sequence SpecExpr enumerates exhaustively
MaxExprLen == 5

-----------------------------------------------------------------------------
(* f64 values.  A number is kept in sign-magnitude decimal form:           *)
(* neg is the sign bit (so -0.0 is a value of its own), mag the integer    *)
(* part and frac the fraction digits without trailing zeros.  Arithmetic   *)
(* is modelled on the integral values only (they are exact in an f64).     *)

F64(neg, mag, frac) == [neg |-> neg, mag |-> mag, frac |-> frac]

FromInt(i) == IF i < 0 THEN F64(TRUE, -i, <<>>) ELSE F64(FALSE, i, <<>>)

IsIntegral(x) == x.frac = <<>>

IntOf(x) == IF x.neg THEN -x.mag ELSE x.mag

IsZero(x) == x.mag = 0 /\ x.frac = <<>>

Digits == <<"0", "1", "2", "3", "4", "5", "6", "7", "8", "9">>

DigitValue(c) == CHOOSE d \in 0..9 : Digits[d + 1] = c

RECURSIVE NatText(_)
NatText(n) == IF n < 10 THEN Digits[n + 1] ELSE NatText(n \div 10) \o Digits[(n % 10) + 1]

RECURSIVE Concat(_)
Concat(cs) == IF cs = <<>> THEN "" ELSE Head(cs) \o Concat(Tail(cs))

\* f64's Display (println!("{}", n), n.to_string())
to_string(x) ==
    (IF x.neg THEN "-" ELSE "") \o NatText(x.mag)
        \o (IF x.frac = <<>> THEN "" ELSE "." \o Concat(x.frac))

-----------------------------------------------------------------------------
(* Tokens (lexer.rs, enum Token).  k is the variant; Identifier and        *)
(* StringLiteral carry a string s, NumberLiteral carries an f64 n.         *)

Tok(k) == [k |-> k]

IdentifierTok(s) == [k |-> "Identifier", s |-> s]

StringTok(s) == [k |-> "StringLiteral", s |-> s]

NumberTok(n) == [k |-> "NumberLiteral", n |-> n]

EOF == Tok("EOF")

-----------------------------------------------------------------------------
(* The lexer (lexer.rs).  A source string is a sequence of characters,     *)
(* each a one-character string.                                            *)

Whitespace == {" ", "\n", "\t"}

Alphabetic ==
    {"a", "b", "c", "d", "e", "f", "g", "h", "i", "j", "k", "l", "m",
     "n", "o", "p", "q", "r", "s", "t", "u", "v", "w", "x", "y", "z"}

DigitChars == {Digits[i] : i \in 1..10}

is_whitespace(c) == c \in Whitespace

is_alphabetic(c) == c \in Alphabetic

is_digit(c) == c \in DigitChars

is_alphanumeric(c) == is_alphabetic(c) \/ is_digit(c)

\* the guard of the identifier arm: c.is_alphabetic() || c == '_'
is_ident_start(c) == is_alphabetic(c) \/ c = "_"

\* the longest prefix of cs whose characters all satisfy the loop's test
RECURSIVE IdentPrefixLen(_)
IdentPrefixLen(cs) ==
    IF cs # <<>> /\ (is_alphanumeric(Head(cs)) \/ Head(cs) = "_")
    THEN 1 + IdentPrefixLen(Tail(cs))
    ELSE 0

collect_identifier(cs) ==
    LET n == IdentPrefixLen(cs)
    IN  [ident |-> Concat(SubSeq(cs, 1, n)), rest |-> SubSeq(cs, n + 1, Len(cs))]

RECURSIVE NumPrefixLen(_)
NumPrefixLen(cs) ==
    IF cs # <<>> /\ (is_digit(Head(cs)) \/ Head(cs) = ".")
    THEN 1 + NumPrefixLen(Tail(cs))
    ELSE 0

RECURSIVE DigitsValue(_)
DigitsValue(ds) ==
    IF ds = <<>> THEN 0
    ELSE 10 * DigitsValue(SubSeq(ds, 1, Len(ds) - 1)) + DigitValue(ds[Len(ds)])

RECURSIVE StripTrailingZeros(_)
StripTrailingZeros(ds) ==
    IF ds # <<>> /\ ds[Len(ds)] = "0"
    THEN StripTrailingZeros(SubSeq(ds, 1, Len(ds) - 1))
    ELSE ds

\* num_str.parse::<f64>().unwrap_or(0.0) for a string of digits and dots
\* that starts with a digit: more than one dot does not parse
parse_f64(num_str) ==
    LET dots == {i \in 1..Len(num_str) : num_str[i] = "."}
    IN  IF Cardinality(dots) > 1 THEN FromInt(0)
        ELSE IF dots = {} THEN F64(FALSE, DigitsValue(num_str), <<>>)
        ELSE LET d == CHOOSE i \in dots : TRUE
             IN  F64(FALSE, DigitsValue(SubSeq(num_str, 1, d - 1)),
                     StripTrailingZeros(SubSeq(num_str, d + 1, Len(num_str))))

collect_number(cs) ==
    LET n == NumPrefixLen(cs)
    IN  [number |-> parse_f64(SubSeq(cs, 1, n)), rest |-> SubSeq(cs, n + 1, Len(cs))]

RECURSIVE StringPrefixLen(_)
StringPrefixLen(cs) ==
    IF cs # <<>> /\ Head(cs) # "\"" THEN 1 + StringPrefixLen(Tail(cs)) ELSE 0

\* called after the opening quote is consumed; the closing quote is consumed
\* when there is one, and the end of input ends the literal silently
collect_string_literal(cs) ==
    LET n == StringPrefixLen(cs)
    IN  [string_lit |-> Concat(SubSeq(cs, 1, n)),
         rest |-> IF n < Len(cs) THEN SubSeq(cs, n + 2, Len(cs)) ELSE <<>>]

Keyword(ident) ==
    CASE ident = "print" -> Tok("Print")
      [] ident = "if" -> Tok("If")
      [] ident = "else" -> Tok("Else")
      [] ident = "func" -> Tok("Function")
      [] OTHER -> IdentifierTok(ident)

\* '=', '!', '<', '>' : the token with and without a following '='
TwoCharHeads == {"=", "!", "<", ">"}

WithEqual(c) ==
    CASE c = "=" -> Tok("EqualEqual")
      [] c = "!" -> Tok("NotEqual")
      [] c = "<" -> Tok("LessEqual")
      [] c = ">" -> Tok("GreaterEqual")

WithoutEqual(c) ==
    CASE c = "=" -> Tok("Assign")
      [] c = "!" -> Tok("Bang")
      [] c = "<" -> Tok("LessThan")
      [] c = ">" -> Tok("GreaterThan")

SingleChars == {"+", "-", "*", "/", ",", ";", "(", ")", "{", "}"}

SingleTok(c) ==
    CASE c = "+" -> Tok("Plus")
      [] c = "-" -> Tok("Minus")
      [] c = "*" -> Tok("Star")
      [] c = "/" -> Tok("Slash")
      [] c = "," -> Tok("Comma")
      [] c = ";" -> Tok("Semicolon")
      [] c = "(" -> Tok("LeftParen")
      [] c = ")" -> Tok("RightParen")
      [] c = "{" -> Tok("LeftBrace")
      [] c = "}" -> Tok("RightBrace")

LexFrame == UNCHANGED <<input, pos, pstack, ast_nodes, global_env, functions, out, err, trace>>

Lexing == pc = "lex" /\ chars # <<>>

LexWhitespace ==
    /\ Lexing /\ is_whitespace(Head(chars))
    /\ chars' = Tail(chars)
    /\ UNCHANGED <<pc, tokens>> /\ LexFrame

LexIdentifier ==
    /\ Lexing /\ is_ident_start(Head(chars))
    /\ LET r == collect_identifier(chars)
       IN  /\ tokens' = Append(tokens, Keyword(r.ident))
           /\ chars' = r.rest
    /\ UNCHANGED pc /\ LexFrame

LexNumber ==
    /\ Lexing /\ is_digit(Head(chars))
    /\ LET r == collect_number(chars)
       IN  /\ tokens' = Append(tokens, NumberTok(r.number))
           /\ chars' = r.rest
    /\ UNCHANGED pc /\ LexFrame

LexString ==
    /\ Lexing /\ Head(chars) = "\""
    /\ LET r == collect_string_literal(Tail(chars))
       IN  /\ tokens' = Append(tokens, StringTok(r.string_lit))
           /\ chars' = r.rest
    /\ UNCHANGED pc /\ LexFrame

LexTwoChar ==
    /\ Lexing /\ Head(chars) \in TwoCharHeads
    /\ LET rest == Tail(chars)
       IN  IF rest # <<>> /\ Head(rest) = "="
           THEN tokens' = Append(tokens, WithEqual(Head(chars))) /\ chars' = Tail(rest)
           ELSE tokens' = Append(tokens, WithoutEqual(Head(chars))) /\ chars' = rest
    /\ UNCHANGED pc /\ LexFrame

LexSingle ==
    /\ Lexing /\ Head(chars) \in SingleChars
    /\ tokens' = Append(tokens, SingleTok(Head(chars)))
    /\ chars' = Tail(chars)
    /\ UNCHANGED pc /\ LexFrame

\* LexUnknown without chars.next(): the unknown character is never consumed
LexUnknownKeeps ==
    /\ Lexing
    /\ ~is_whitespace(Head(chars)) /\ ~is_ident_start(Head(chars))
    /\ ~is_digit(Head(chars)) /\ Head(chars) # "\""
    /\ Head(chars) \notin TwoCharHeads \cup SingleChars
    /\ UNCHANGED <<pc, tokens, chars>> /\ LexFrame

LexUnknown ==
    /\ Lexing
    /\ ~is_whitespace(Head(chars)) /\ ~is_ident_start(Head(chars))
    /\ ~is_digit(Head(chars)) /\ Head(chars) # "\""
    /\ Head(chars) \notin TwoCharHeads \cup SingleChars
    /\ chars' = Tail(chars)
    /\ UNCHANGED <<pc, tokens>> /\ LexFrame

\* the loop ends when peek() is None; the end-marker is pushed and lex returns
LexEnd ==
    /\ pc = "lex" /\ chars = <<>>
    /\ tokens' = Append(tokens, EOF)
    /\ pc' = "lexed"
    /\ UNCHANGED chars /\ LexFrame

\* the source strings SpecLex runs lex on: every string of at most MaxSrcLen
\* characters over SrcChars, and two longer samples that use the remaining
\* punctuation and the longer keywords
SrcChars == {" ", "i", "f", "_", "1", "0", ".", "\"", "=", "<", "+", ";", "#"}

RECURSIVE SeqsUpTo(_, _)
SeqsUpTo(S, n) ==
    IF n = 0 THEN {<<>>}
    ELSE LET shorter == SeqsUpTo(S, n - 1)
         IN  shorter \cup {Append(s, c) : s \in shorter, c \in S}

SampleSources ==
    { <<"f", "u", "n", "c", " ", "g", "(", "a", ",", "b", ")", "{",
        "p", "r", "i", "n", "t", " ", "a", "*", "b", "/", "2", "-", "1", ">", "=", "0", ";", "}">>,
      <<"i", "f", "(", "!", "x", ">", "1", ")", "{", "}", "e", "l", "s", "e", "{",
        "y", "=", "\"", "h", "i", "\t", "\"", ";", "}", "\n", "!", "=", " ", "\"", "z">> }

Sources == SeqsUpTo(SrcChars, MaxSrcLen) \cup SampleSources

-----------------------------------------------------------------------------
(* Syntax-tree nodes (parser.rs, enum ASTNode).  t is the variant.         *)

None == [some |-> FALSE]

Some(v) == [some |-> TRUE, v |-> v]

Program(statements) == [t |-> "Program", statements |-> statements]

PrintStatement(expr) == [t |-> "PrintStatement", expr |-> expr]

VariableAssignment(name, expr) == [t |-> "VariableAssignment", name |-> name, expr |-> expr]

IfStatement(condition, then_branch, else_branch) ==
    [t |-> "IfStatement", condition |-> condition,
     then_branch |-> then_branch, else_branch |-> else_branch]

FunctionDeclaration(name, parameters, body) ==
    [t |-> "FunctionDeclaration", name |-> name, parameters |-> parameters, body |-> body]

FunctionCall(name, arguments) == [t |-> "FunctionCall", name |-> name, arguments |-> arguments]

Identifier(name) == [t |-> "Identifier", name |-> name]

StringLiteral(s) == [t |-> "StringLiteral", s |-> s]

NumberLiteral(n) == [t |-> "NumberLiteral", n |-> n]

BinaryExpression(left, operator, right) ==
    [t |-> "BinaryExpression", left |-> left, operator |-> operator, right |-> right]

UnaryExpression(operator, operand) ==
    [t |-> "UnaryExpression", operator |-> operator, operand |-> operand]

-----------------------------------------------------------------------------
(* The expression parser (parser.rs).  toks is the token slice and p the   *)
(* index the peekable iterator is at; a result is Ok with the node and the *)
(* index after it, or Err with the message.                                *)

Ok(node, p) == [ok |-> TRUE, node |-> node, pos |-> p]

Err(msg) == [ok |-> FALSE, msg |-> msg]

\* tokens.peek(): the token at p, or None past the end
Peek(toks, p) == IF p <= Len(toks) THEN toks[p] ELSE Tok("None")

expect_token(toks, p, expected) ==
    IF p <= Len(toks)
    THEN IF toks[p] = expected
         THEN [ok |-> TRUE, pos |-> p + 1]
         ELSE Err([msg |-> "Expected token {:?}, found {:?}",
                   expected |-> expected, found |-> toks[p]])
    ELSE Err([msg |-> "Expected token {:?}, found end of input", expected |-> expected])

\* the `?` operator: an Err is returned at once, an Ok value is used
Try(r, Continue(_)) == IF r.ok THEN Continue(r) ELSE r

RECURSIVE parse_equality(_, _), parse_unary(_, _), parse_arguments(_, _, _)

parse_expression(toks, p) == parse_equality(toks, p)

parse_primary(toks, p) ==
    LET tok == Peek(toks, p)
    IN  CASE tok.k = "NumberLiteral" -> Ok(NumberLiteral(tok.n), p + 1)
          [] tok.k = "StringLiteral" -> Ok(StringLiteral(tok.s), p + 1)
          [] tok.k = "Identifier" ->
                IF Peek(toks, p + 1).k = "LeftParen"
                THEN Try(parse_arguments(toks, <<>>, p + 2), LAMBDA arguments :
                     Try(expect_token(toks, arguments.pos, Tok("RightParen")), LAMBDA close :
                     Ok(FunctionCall(tok.s, arguments.node), close.pos)))
                ELSE Ok(Identifier(tok.s), p + 1)
          [] tok.k = "LeftParen" ->
                Try(parse_expression(toks, p + 1), LAMBDA expr :
                Try(expect_token(toks, expr.pos, Tok("RightParen")), LAMBDA close :
                Ok(expr.node, close.pos)))
          [] OTHER -> Err([msg |-> "Expected an expression."])

\* the loop of parse_arguments with args collected so far; node is the Vec
parse_arguments(toks, args, p) ==
    IF Peek(toks, p).k \in {"None", "RightParen"} THEN Ok(args, p)
    ELSE Try(parse_expression(toks, p), LAMBDA arg :
         IF Peek(toks, arg.pos).k = "Comma"
         THEN parse_arguments(toks, Append(args, arg.node), arg.pos + 1)
         ELSE Ok(Append(args, arg.node), arg.pos))

parse_unary(toks, p) ==
    IF Peek(toks, p).k \in {"Minus", "Bang"}
    THEN Try(parse_unary(toks, p + 1), LAMBDA operand :
         Ok(UnaryExpression(toks[p], operand.node), operand.pos))
    ELSE parse_primary(toks, p)

\* multiplication_loop that takes `+` and `-` at the level of `*` and `/`
RECURSIVE multiplication_loop_flat(_, _, _)
multiplication_loop_flat(toks, expr, p) ==
    IF Peek(toks, p).k \in {"Star", "Slash", "Plus", "Minus"}
    THEN Try(parse_unary(toks, p + 1), LAMBDA right :
         multiplication_loop_flat(toks, BinaryExpression(expr, toks[p], right.node), right.pos))
    ELSE Ok(expr, p)

\* the while loop of parse_multiplication with expr built so far
RECURSIVE multiplication_loop(_, _, _)
multiplication_loop(toks, expr, p) ==
    IF Peek(toks, p).k \in {"Star", "Slash"}
    THEN Try(parse_unary(toks, p + 1), LAMBDA right :
         multiplication_loop(toks, BinaryExpression(expr, toks[p], right.node), right.pos))
    ELSE Ok(expr, p)

parse_multiplication(toks, p) ==
    Try(parse_unary(toks, p), LAMBDA expr : multiplication_loop(toks, expr.node, expr.pos))

\* the while loop of parse_addition with expr built so far
RECURSIVE addition_loop(_, _, _)
addition_loop(toks, expr, p) ==
    IF Peek(toks, p).k \in {"Plus", "Minus"}
    THEN Try(parse_multiplication(toks, p + 1), LAMBDA right :
         addition_loop(toks, BinaryExpression(expr, toks[p], right.node), right.pos))
    ELSE Ok(expr, p)

parse_addition(toks, p) ==
    Try(parse_multiplication(toks, p), LAMBDA expr : addition_loop(toks, expr.node, expr.pos))

\* the while loop of parse_comparison with expr built so far
RECURSIVE comparison_loop(_, _, _)
comparison_loop(toks, expr, p) ==
    IF Peek(toks, p).k \in {"LessThan", "GreaterThan", "LessEqual", "GreaterEqual"}
    THEN Try(parse_addition(toks, p + 1), LAMBDA right :
         comparison_loop(toks, BinaryExpression(expr, toks[p], right.node), right.pos))
    ELSE Ok(expr, p)

parse_comparison(toks, p) ==
    Try(parse_addition(toks, p), LAMBDA expr : comparison_loop(toks, expr.node, expr.pos))

\* the while loop of parse_equality with expr built so far
RECURSIVE equality_loop(_, _, _)
equality_loop(toks, expr, p) ==
    IF Peek(toks, p).k \in {"EqualEqual", "NotEqual"}
    THEN Try(parse_comparison(toks, p + 1), LAMBDA right :
         equality_loop(toks, BinaryExpression(expr, toks[p], right.node), right.pos))
    ELSE Ok(expr, p)

parse_equality(toks, p) ==
    Try(parse_comparison(toks, p), LAMBDA expr : equality_loop(toks, expr.node, expr.pos))

-----------------------------------------------------------------------------
(* The statement parser (parser.rs).  parse_statement returns a finished   *)
(* statement, or, for `if` and `func`, the frame of the parse_block call   *)
(* it is about to make: the block loops run one iteration per step.        *)

Finished(r) == IF r.ok THEN [ok |-> TRUE, open |-> FALSE, node |-> r.node, pos |-> r.pos] ELSE r

Open(frame, p) == [ok |-> TRUE, open |-> TRUE, frame |-> frame, pos |-> p]

\* the frames of the parser's calls: parse itself, and parse_block called for
\* a then-branch, an else-branch or a function body, with the locals of the
\* caller (parse_if_statement, parse_function_declaration) that wait for it
ParseFrame == [fn |-> "parse", statements |-> <<>>]

ThenFrame(condition) == [fn |-> "then", statements |-> <<>>, condition |-> condition]

ElseFrame(condition, then_branch) ==
    [fn |-> "else", statements |-> <<>>, condition |-> condition, then_branch |-> then_branch]

BodyFrame(name, parameters) ==
    [fn |-> "body", statements |-> <<>>, name |-> name, parameters |-> parameters]

parse_print_statement(toks, p) ==
    Try(parse_expression(toks, p + 1), LAMBDA expr :
    Try(expect_token(toks, expr.pos, Tok("Semicolon")), LAMBDA semi :
    Ok(PrintStatement(expr.node), semi.pos)))

parse_assignment_or_expression_statement(toks, p) ==
    Try(parse_expression(toks, p), LAMBDA expr :
    IF Peek(toks, expr.pos).k = "Assign"
    THEN IF expr.node.t = "Identifier"
         THEN Try(parse_expression(toks, expr.pos + 1), LAMBDA value :
              Try(expect_token(toks, value.pos, Tok("Semicolon")), LAMBDA semi :
              Ok(VariableAssignment(expr.node.name, value.node), semi.pos)))
         ELSE Err([msg |-> "Invalid assignment target."])
    ELSE Try(expect_token(toks, expr.pos, Tok("Semicolon")), LAMBDA semi :
         Ok(expr.node, semi.pos)))

\* the loop of parse_parameters with params collected so far
RECURSIVE parse_parameters(_, _, _)
parse_parameters(toks, params, p) ==
    LET tok == Peek(toks, p)
    IN  CASE tok.k = "None" -> Ok(params, p)
          [] tok.k = "Identifier" ->
                IF Peek(toks, p + 1).k = "Comma"
                THEN parse_parameters(toks, Append(params, tok.s), p + 2)
                ELSE Ok(Append(params, tok.s), p + 1)
          [] tok.k = "RightParen" -> Ok(params, p)
          [] OTHER -> Err([msg |-> "Unexpected token in parameter list."])

\* parse_if_statement up to its first parse_block call
parse_if_statement(toks, p) ==
    Try(expect_token(toks, p + 1, Tok("LeftParen")), LAMBDA lparen :
    Try(parse_expression(toks, lparen.pos), LAMBDA condition :
    Try(expect_token(toks, condition.pos, Tok("RightParen")), LAMBDA rparen :
    Try(expect_token(toks, rparen.pos, Tok("LeftBrace")), LAMBDA lbrace :
    Open(ThenFrame(condition.node), lbrace.pos)))))

\* parse_function_declaration up to its parse_block call
parse_function_declaration(toks, p) ==
    IF Peek(toks, p + 1).k # "Identifier" THEN Err([msg |-> "Expected function name."])
    ELSE Try(expect_token(toks, p + 2, Tok("LeftParen")), LAMBDA lparen :
         Try(parse_parameters(toks, <<>>, lparen.pos), LAMBDA parameters :
         Try(expect_token(toks, parameters.pos, Tok("RightParen")), LAMBDA rparen :
         Try(expect_token(toks, rparen.pos, Tok("LeftBrace")), LAMBDA lbrace :
         Open(BodyFrame(toks[p + 1].s, parameters.node), lbrace.pos)))))

parse_statement(toks, p) ==
    LET tok == Peek(toks, p)
    IN  CASE tok.k = "Print" -> Finished(parse_print_statement(toks, p))
          [] tok.k = "If" -> parse_if_statement(toks, p)
          [] tok.k = "Function" -> parse_function_declaration(toks, p)
          [] tok.k = "Identifier" -> Finished(parse_assignment_or_expression_statement(toks, p))
          [] tok.k = "Semicolon" -> Finished(Ok(Program(<<>>), p + 1))
          [] tok.k = "EOF" -> Finished(Ok(Program(<<>>), p))
          [] OTHER -> Err([msg |-> "Unexpected token in statement."])

Top(stack) == stack[Len(stack)]

\* statements.push(stmt) / ast.push(node) in the innermost open loop
Push(stack, node) == [stack EXCEPT ![Len(stack)].statements = Append(@, node)]

\* one iteration of the loop of parse or parse_block that calls parse_statement
StatementStep(toks, p, stack) ==
    Try(parse_statement(toks, p), LAMBDA r :
    IF r.open THEN [ok |-> TRUE, pos |-> r.pos, stack |-> Append(stack, r.frame)]
    ELSE [ok |-> TRUE, pos |-> r.pos, stack |-> Push(stack, r.node)])

\* parse_block sees `}` (or the end of the tokens) and returns to its caller,
\* which builds its node, or, after a then-branch followed by `else`, calls
\* parse_block again
BlockReturn(toks, p, stack) ==
    LET after == IF Peek(toks, p).k = "RightBrace" THEN p + 1 ELSE p
        frame == Top(stack)
        outer == SubSeq(stack, 1, Len(stack) - 1)
    IN  CASE frame.fn = "then" ->
                IF Peek(toks, after).k = "Else"
                THEN Try(expect_token(toks, after + 1, Tok("LeftBrace")), LAMBDA lbrace :
                     [ok |-> TRUE, pos |-> lbrace.pos,
                      stack |-> Append(outer, ElseFrame(frame.condition, frame.statements))])
                ELSE [ok |-> TRUE, pos |-> after,
                      stack |-> Push(outer, IfStatement(frame.condition, frame.statements, None))]
          [] frame.fn = "else" ->
                [ok |-> TRUE, pos |-> after,
                 stack |-> Push(outer, IfStatement(frame.condition, frame.then_branch,
                                                   Some(frame.statements)))]
          [] frame.fn = "body" ->
                [ok |-> TRUE, pos |-> after,
                 stack |-> Push(outer, FunctionDeclaration(frame.name, frame.parameters,
                                                           frame.statements))]

\* the token that ends the innermost open loop: EOF for parse, `}` for
\* parse_block; both loops also end when peek() is None
LoopEnds(toks, p, stack) ==
    Peek(toks, p).k \in (IF Len(stack) = 1 THEN {"EOF", "None"} ELSE {"RightBrace", "None"})

\* The model stops a block loop that sits on the end-marker once the block
\* holds MaxBlockLen statements: parse_statement returns an empty statement
\* there without consuming the end-marker.
WithinBlockBound(toks, p, stack) ==
    Peek(toks, p).k = "EOF" => Len(Top(stack).statements) < MaxBlockLen

ParseUnchanged == UNCHANGED <<input, chars, tokens, global_env, functions, out, trace>>

\* a step of the parser that went well
ParseOk(r) ==
    /\ r.ok
    /\ pos' = r.pos
    /\ pstack' = r.stack
    /\ UNCHANGED <<pc, ast_nodes, err>>

\* ParseErr with the statements parsed before the error handed to interpret
ParseErrKeepsParsed(r) ==
    /\ ~r.ok
    /\ err' = Append(err, [text |-> "Error: {}", e |-> r.msg])
    /\ pc' = "interpret"
    /\ ast_nodes' = pstack[1].statements
    /\ UNCHANGED <<pos, pstack>>

\* main: Err(e) => eprintln!("Error: {}", e)
ParseErr(r) ==
    /\ ~r.ok
    /\ err' = Append(err, [text |-> "Error: {}", e |-> r.msg])
    /\ pc' = "done"
    /\ UNCHANGED <<pos, pstack, ast_nodes>>

ParseStatement ==
    /\ pc = "parse" /\ ~LoopEnds(tokens, pos, pstack)
    /\ WithinBlockBound(tokens, pos, pstack)
    /\ ParseOk(StatementStep(tokens, pos, pstack))
    /\ ParseUnchanged

ParseStatementErr ==
    /\ pc = "parse" /\ ~LoopEnds(tokens, pos, pstack)
    /\ ParseErr(StatementStep(tokens, pos, pstack))
    /\ ParseUnchanged

ParseBlockReturn ==
    /\ pc = "parse" /\ Len(pstack) > 1 /\ LoopEnds(tokens, pos, pstack)
    /\ ParseOk(BlockReturn(tokens, pos, pstack))
    /\ ParseUnchanged

ParseBlockReturnErr ==
    /\ pc = "parse" /\ Len(pstack) > 1 /\ LoopEnds(tokens, pos, pstack)
    /\ ParseErr(BlockReturn(tokens, pos, pstack))
    /\ ParseUnchanged

\* ParseEnd with the top-level declarations entered in the function table
\* before interpret runs the first statement
ParseEndHoists ==
    /\ pc = "parse" /\ Len(pstack) = 1 /\ LoopEnds(tokens, pos, pstack)
    /\ ast_nodes' = pstack[1].statements
    /\ pc' = "interpret"
    /\ LET RECURSIVE hoisted(_, _)
           hoisted(fns, nodes) ==
               IF nodes = <<>> THEN fns
               ELSE hoisted(IF Head(nodes).t = "FunctionDeclaration"
                            THEN [name \in DOMAIN fns \cup {Head(nodes).name} |->
                                     IF name = Head(nodes).name THEN Head(nodes) ELSE fns[name]]
                            ELSE fns,
                            Tail(nodes))
       IN  functions' = hoisted(functions, pstack[1].statements)
    /\ UNCHANGED <<pos, pstack, err, input, chars, tokens, global_env, out, trace>>

\* parse returns Ok(ast) and main calls interpret(ast_nodes)
ParseEnd ==
    /\ pc = "parse" /\ Len(pstack) = 1 /\ LoopEnds(tokens, pos, pstack)
    /\ ast_nodes' = pstack[1].statements
    /\ pc' = "interpret"
    /\ UNCHANGED <<pos, pstack, err>> /\ ParseUnchanged

-----------------------------------------------------------------------------
(* f64 arithmetic on the integral values (main.rs, evaluate).  A quotient  *)
(* that is not an integer, an infinity and a NaN are not representable:    *)
(* the CASEs below have no arm for them, and no program of the model       *)
(* produces one.                                                           *)

Xor(a, b) == a # b

f64_neg(x) == [x EXCEPT !.neg = ~x.neg]

f64_add(l, r) ==
    CASE IsIntegral(l) /\ IsIntegral(r) ->
        LET sum == IntOf(l) + IntOf(r)
        IN  IF sum = 0 THEN F64(l.neg /\ r.neg, 0, <<>>) ELSE FromInt(sum)

f64_sub(l, r) == f64_add(l, f64_neg(r))

f64_mul(l, r) ==
    CASE IsIntegral(l) /\ IsIntegral(r) -> F64(Xor(l.neg, r.neg), l.mag * r.mag, <<>>)

f64_div(l, r) ==
    CASE IsIntegral(l) /\ IsIntegral(r) /\ r.mag # 0 /\ l.mag % r.mag = 0 ->
        F64(Xor(l.neg, r.neg), l.mag \div r.mag, <<>>)

f64_eq(l, r) == CASE IsIntegral(l) /\ IsIntegral(r) -> IntOf(l) = IntOf(r)

f64_lt(l, r) == CASE IsIntegral(l) /\ IsIntegral(r) -> IntOf(l) < IntOf(r)

\* (b as i32 as f64)
FromBool(b) == FromInt(IF b THEN 1 ELSE 0)

-----------------------------------------------------------------------------
(* Environment (main.rs).  values is a function from the names it defines  *)
(* to their values; enclosing is None or Some(environment), owned: a clone *)
(* of an environment is the same value.                                    *)

EmptyMap == [name \in {} |-> None]

Insert(map, key, value) ==
    [k \in DOMAIN map \cup {key} |-> IF k = key THEN value ELSE map[k]]

Environment_new(enclosing) == [values |-> EmptyMap, enclosing |-> enclosing]

define(env, name, value) == [env EXCEPT !.values = Insert(@, name, value)]

RECURSIVE get(_, _)
get(env, name) ==
    IF name \in DOMAIN env.values THEN Some(env.values[name])
    ELSE IF env.enclosing.some THEN get(env.enclosing.v, name)
    ELSE None

\* assign that binds the name in the scope it is called on
assign_local(env, name, value) == [ok |-> TRUE, env |-> define(env, name, value)]

\* ok is the bool assign returns, env the environment after the call
RECURSIVE assign(_, _, _)
assign(env, name, value) ==
    IF name \in DOMAIN env.values
    THEN [ok |-> TRUE, env |-> [env EXCEPT !.values = Insert(@, name, value)]]
    ELSE IF env.enclosing.some
    THEN LET inner == assign(env.enclosing.v, name, value)
         IN  [ok |-> inner.ok, env |-> [env EXCEPT !.enclosing = Some(inner.env)]]
    ELSE [ok |-> FALSE, env |-> env]

is_truthy(value) ==
    CASE value.t = "NumberLiteral" -> ~IsZero(value.n)
      [] value.t = "StringLiteral" -> value.s # ""
      [] OTHER -> FALSE

-----------------------------------------------------------------------------
(* execute and evaluate (main.rs).  env is the &mut Environment the call   *)
(* is given; w holds what every call shares: the function table, the lines *)
(* written to stdout (out) and to stderr (err), and the history of the     *)
(* calls that have returned (trace).  Both return env and w as the call    *)
(* leaves them.                                                            *)

World(fns, o, e, tr) == [functions |-> fns, out |-> o, err |-> e, trace |-> tr]

Zero == NumberLiteral(FromInt(0))

Eprintln(w, diag) == [w EXCEPT !.err = Append(@, diag)]

Println(w, line) == [w EXCEPT !.out = Append(@, line)]

\* history: what a finished call was given and what it left
Event(op, node, env, w, r) ==
    [op |-> op, node |-> node, from |-> Len(w.trace),
     env0 |-> env, fns0 |-> w.functions, out0 |-> Len(w.out), err0 |-> Len(w.err),
     env1 |-> r.env, fns1 |-> r.w.functions, out1 |-> Len(r.w.out), err1 |-> Len(r.w.err),
     value |-> IF op = "evaluate" THEN Some(r.value) ELSE None]

Logged(op, node, env, w, r) == [r EXCEPT !.w.trace = Append(@, Event(op, node, env, w, r))]

\* the match on (left_value, right_value) and the operator of a
\* BinaryExpression: the value, and the message when there is one
binary(l, operator, r) ==
    LET op == operator.k
        fail(text) == [value |-> Zero, diag |-> Some([text |-> text])]
        fine(value) == [value |-> value, diag |-> None]
    IN  CASE l.t = "NumberLiteral" /\ r.t = "NumberLiteral" ->
              CASE op = "Plus" -> fine(NumberLiteral(f64_add(l.n, r.n)))
                [] op = "Minus" -> fine(NumberLiteral(f64_sub(l.n, r.n)))
                [] op = "Star" -> fine(NumberLiteral(f64_mul(l.n, r.n)))
                [] op = "Slash" -> fine(NumberLiteral(f64_div(l.n, r.n)))
                [] op = "EqualEqual" -> fine(NumberLiteral(FromBool(f64_eq(l.n, r.n))))
                [] op = "NotEqual" -> fine(NumberLiteral(FromBool(~f64_eq(l.n, r.n))))
                [] op = "LessThan" -> fine(NumberLiteral(FromBool(f64_lt(l.n, r.n))))
                [] op = "GreaterThan" -> fine(NumberLiteral(FromBool(f64_lt(r.n, l.n))))
                [] op = "LessEqual" -> fine(NumberLiteral(FromBool(~f64_lt(r.n, l.n))))
                [] op = "GreaterEqual" -> fine(NumberLiteral(FromBool(~f64_lt(l.n, r.n))))
                [] OTHER -> fail("Error: Unsupported operator")
          [] l.t = "StringLiteral" /\ r.t = "StringLiteral" ->
              CASE op = "Plus" -> fine(StringLiteral(l.s \o r.s))
                [] op = "EqualEqual" -> fine(NumberLiteral(FromBool(l.s = r.s)))
                [] op = "NotEqual" -> fine(NumberLiteral(FromBool(l.s # r.s)))
                [] OTHER -> fail("Error: Unsupported operator for strings")
          [] l.t = "StringLiteral" /\ r.t = "NumberLiteral" ->
              CASE op = "Plus" -> fine(StringLiteral(l.s \o to_string(r.n)))
                [] OTHER -> fail("Error: Unsupported operator for string and number")
          [] l.t = "NumberLiteral" /\ r.t = "StringLiteral" ->
              CASE op = "Plus" -> fine(StringLiteral(to_string(l.n) \o r.s))
                [] OTHER -> fail("Error: Unsupported operator for number and string")
          [] OTHER -> fail("Error: Invalid operands")

\* the match on operand_value and the operator of a UnaryExpression
unary(operator, v) ==
    LET op == operator.k
        fail(text) == [value |-> Zero, diag |-> Some([text |-> text])]
        fine(value) == [value |-> value, diag |-> None]
    IN  CASE v.t = "NumberLiteral" ->
              CASE op = "Minus" -> fine(NumberLiteral(f64_neg(v.n)))
                [] op = "Bang" -> fine(NumberLiteral(FromBool(IsZero(v.n))))
                [] OTHER -> fail("Error: Unsupported unary operator")
          [] OTHER -> fail("Error: Invalid operand for unary operator")

\* the value with its message, if any, written
Reported(x, env, w) ==
    [value |-> x.value, env |-> env, w |-> IF x.diag.some THEN Eprintln(w, x.diag.v) ELSE w]

\* the line print writes for a value
PrintedLine(value) ==
    CASE value.t = "StringLiteral" -> value.s
      [] value.t = "NumberLiteral" -> to_string(value.n)
      [] OTHER -> "Cannot print value"

ArityError(name) == [text |-> "Error: Incorrect number of arguments for function '{}'", name |-> name]

UndefinedFunction(name) == [text |-> "Error: Undefined function '{}'", name |-> name]

UndefinedVariable(name) == [text |-> "Error: Undefined variable '{}'", name |-> name]

RECURSIVE execute(_, _, _), evaluate(_, _, _)

\* for stmt in block { execute(stmt, env, functions) }
RECURSIVE execute_all(_, _, _)
execute_all(block, env, w) ==
    IF block = <<>> THEN [env |-> env, w |-> w]
    ELSE LET rest(r) == execute_all(Tail(block), r.env, r.w)
         IN  rest(execute(Head(block), env, w))

\* bind_arguments with each argument evaluated in local_env, the new
\* environment of the call
RECURSIVE bind_arguments_in_callee(_, _, _, _, _)
bind_arguments_in_callee(parameters, arguments, local_env, env, w) ==
    IF parameters = <<>> \/ arguments = <<>>
    THEN [local_env |-> local_env, env |-> env, w |-> w]
    ELSE LET rest(arg_value) ==
                 bind_arguments_in_callee(Tail(parameters), Tail(arguments),
                                          define(arg_value.env, Head(parameters), arg_value.value),
                                          env, arg_value.w)
         IN  rest(evaluate(Head(arguments), local_env, w))

\* for (param, arg) in parameters.iter().zip(arguments): the argument is
\* evaluated in env, the caller's environment, and defined in local_env
RECURSIVE bind_arguments(_, _, _, _, _)
bind_arguments(parameters, arguments, local_env, env, w) ==
    IF parameters = <<>> \/ arguments = <<>>
    THEN [local_env |-> local_env, env |-> env, w |-> w]
    ELSE LET rest(arg_value) ==
                 bind_arguments(Tail(parameters), Tail(arguments),
                                define(local_env, Head(parameters), arg_value.value),
                                arg_value.env, arg_value.w)
         IN  rest(evaluate(Head(arguments), env, w))

\* functions.get(&name).cloned() matched against Some(FunctionDeclaration)
Lookup(fns, name) ==
    IF name \in DOMAIN fns /\ fns[name].t = "FunctionDeclaration" THEN Some(fns[name]) ELSE None

\* ---- the arms of execute ----

exec_print(node, env, w) ==
    LET print(value) == [env |-> value.env, w |-> Println(value.w, PrintedLine(value.value))]
    IN  print(evaluate(node.expr, env, w))

\* if !env.assign(&name, value.clone()) { env.define(name, value) }
assign_or_define(env, name, value) ==
    LET result(assigned) == IF assigned.ok THEN assigned.env ELSE define(env, name, value)
    IN  result(assign(env, name, value))

exec_assignment(node, env, w) ==
    LET store(value) ==
            [env |-> assign_or_define(value.env, node.name, value.value), w |-> value.w]
    IN  store(evaluate(node.expr, env, w))

\* run_branch with the branch's environment linked to env itself instead of
\* to a clone: what the branch assigns in env stays assigned
run_branch_linked(branch, env, w) ==
    LET leave(done) == [env |-> done.env.enclosing.v, w |-> done.w]
    IN  leave(execute_all(branch, Environment_new(Some(env)), w))

\* a branch runs in a new environment whose enclosing one is a clone of env;
\* the new environment is dropped when the branch has run
run_branch(branch, env, w) ==
    [env |-> env, w |-> execute_all(branch, Environment_new(Some(env)), w).w]

exec_if(node, env, w) ==
    LET branch(cond_value) ==
            IF is_truthy(cond_value.value)
            THEN run_branch(node.then_branch, cond_value.env, cond_value.w)
            ELSE IF node.else_branch.some
            THEN run_branch(node.else_branch.v, cond_value.env, cond_value.w)
            ELSE [env |-> cond_value.env, w |-> cond_value.w]
    IN  branch(evaluate(node.condition, env, w))

\* exec_declaration that keeps the declaration a name already has
exec_declaration_once(node, env, w) ==
    [env |-> env,
     w |-> IF node.name \in DOMAIN w.functions THEN w
           ELSE [w EXCEPT !.functions = Insert(@, node.name, node)]]

exec_declaration(node, env, w) ==
    [env |-> env, w |-> [w EXCEPT !.functions = Insert(@, node.name, node)]]

\* exec_call with the body's environment around the outermost scope of env,
\* the global one, instead of around env
exec_call_global(node, env, w) ==
    LET function == Lookup(w.functions, node.name)
        RECURSIVE outermost(_)
        outermost(e) == IF e.enclosing.some THEN outermost(e.enclosing.v) ELSE e
        run(bound) ==
            [env |-> bound.env, w |-> execute_all(function.v.body, bound.local_env, bound.w).w]
    IN  IF function.some
        THEN IF Len(node.arguments) # Len(function.v.parameters)
             THEN [env |-> env, w |-> Eprintln(w, ArityError(node.name))]
             ELSE run(bind_arguments(function.v.parameters, node.arguments,
                                     Environment_new(Some(outermost(env))), env, w))
        ELSE [env |-> env, w |-> Eprintln(w, UndefinedFunction(node.name))]

\* exec_call with the arguments evaluated before their number is checked
exec_call_eager(node, env, w) ==
    LET function == Lookup(w.functions, node.name)
        run(bound) ==
            IF Len(node.arguments) # Len(function.v.parameters)
            THEN [env |-> bound.env, w |-> Eprintln(bound.w, ArityError(node.name))]
            ELSE [env |-> bound.env,
                  w |-> execute_all(function.v.body, bound.local_env, bound.w).w]
    IN  IF function.some
        THEN run(bind_arguments(function.v.parameters, node.arguments,
                                Environment_new(Some(env)), env, w))
        ELSE [env |-> env, w |-> Eprintln(w, UndefinedFunction(node.name))]

exec_call(node, env, w) ==
    LET function == Lookup(w.functions, node.name)
        run(bound) ==
            [env |-> bound.env, w |-> execute_all(function.v.body, bound.local_env, bound.w).w]
    IN  IF function.some
        THEN IF Len(node.arguments) # Len(function.v.parameters)
             THEN [env |-> env, w |-> Eprintln(w, ArityError(node.name))]
             ELSE run(bind_arguments(function.v.parameters, node.arguments,
                                     Environment_new(Some(env)), env, w))
        ELSE [env |-> env, w |-> Eprintln(w, UndefinedFunction(node.name))]

execute(node, env, w) ==
    Logged("execute", node, env, w,
           CASE node.t = "PrintStatement" -> exec_print(node, env, w)
             [] node.t = "VariableAssignment" -> exec_assignment(node, env, w)
             [] node.t = "IfStatement" -> exec_if(node, env, w)
             [] node.t = "FunctionDeclaration" -> exec_declaration(node, env, w)
             [] node.t = "FunctionCall" -> exec_call(node, env, w)
             [] OTHER -> [env |-> env, w |-> w])

\* ---- the arms of evaluate ----

\* eval_identifier without the message for an undefined variable
eval_identifier_silent(node, env, w) ==
    LET value == get(env, node.name)
    IN  [value |-> IF value.some THEN value.v ELSE Zero, env |-> env, w |-> w]

eval_identifier(node, env, w) ==
    LET value == get(env, node.name)
    IN  IF value.some THEN [value |-> value.v, env |-> env, w |-> w]
        ELSE [value |-> Zero, env |-> env, w |-> Eprintln(w, UndefinedVariable(node.name))]

eval_binary(node, env, w) ==
    LET right(left_value) ==
            LET apply(right_value) ==
                    Reported(binary(left_value.value, node.operator, right_value.value),
                             right_value.env, right_value.w)
            IN  apply(evaluate(node.right, left_value.env, left_value.w))
    IN  right(evaluate(node.left, env, w))

\* eval_call with a call that ran its body yielding 1.0
eval_call_flag(node, env, w) ==
    LET function == Lookup(w.functions, node.name)
        run(bound) ==
            [value |-> NumberLiteral(FromInt(1)), env |-> bound.env,
             w |-> execute_all(function.v.body, bound.local_env, bound.w).w]
    IN  IF function.some
        THEN IF Len(node.arguments) # Len(function.v.parameters)
             THEN [value |-> Zero, env |-> env, w |-> Eprintln(w, ArityError(node.name))]
             ELSE run(bind_arguments(function.v.parameters, node.arguments,
                                     Environment_new(Some(env)), env, w))
        ELSE [value |-> Zero, env |-> env, w |-> Eprintln(w, UndefinedFunction(node.name))]

eval_call(node, env, w) ==
    LET function == Lookup(w.functions, node.name)
        run(bound) ==
            [value |-> Zero, env |-> bound.env,
             w |-> execute_all(function.v.body, bound.local_env, bound.w).w]
    IN  IF function.some
        THEN IF Len(node.arguments) # Len(function.v.parameters)
             THEN [value |-> Zero, env |-> env, w |-> Eprintln(w, ArityError(node.name))]
             ELSE run(bind_arguments(function.v.parameters, node.arguments,
                                     Environment_new(Some(env)), env, w))
        ELSE [value |-> Zero, env |-> env, w |-> Eprintln(w, UndefinedFunction(node.name))]

eval_unary(node, env, w) ==
    LET apply(operand_value) ==
            Reported(unary(node.operator, operand_value.value),
                     operand_value.env, operand_value.w)
    IN  apply(evaluate(node.operand, env, w))

evaluate(node, env, w) ==
    Logged("evaluate", node, env, w,
           CASE node.t = "NumberLiteral" -> [value |-> node, env |-> env, w |-> w]
             [] node.t = "StringLiteral" -> [value |-> node, env |-> env, w |-> w]
             [] node.t = "Identifier" -> eval_identifier(node, env, w)
             [] node.t = "BinaryExpression" -> eval_binary(node, env, w)
             [] node.t = "FunctionCall" -> eval_call(node, env, w)
             [] node.t = "UnaryExpression" -> eval_unary(node, env, w)
             [] OTHER ->
                  [value |-> Zero, env |-> env,
                   w |-> Eprintln(w, [text |-> "Error: Unsupported AST node in evaluation"])])

-----------------------------------------------------------------------------
(* interpret (main.rs): one top-level statement per step.                  *)

Interpreting == pc = "interpret" /\ ast_nodes # <<>>

\* execute(node, &mut global_env, &mut functions) for the next node
Run(node) ==
    LET becomes(r) ==
            /\ global_env' = r.env
            /\ functions' = r.w.functions
            /\ out' = r.w.out
            /\ err' = r.w.err
            /\ trace' = r.w.trace
    IN  /\ becomes(execute(node, global_env, World(functions, out, err, trace)))
        /\ ast_nodes' = Tail(ast_nodes)
        /\ UNCHANGED <<pc, input, chars, tokens, pos, pstack>>

StatementKinds ==
    {"PrintStatement", "VariableAssignment", "IfStatement", "FunctionDeclaration", "FunctionCall"}

ExecutePrint == Interpreting /\ Head(ast_nodes).t = "PrintStatement" /\ Run(Head(ast_nodes))

ExecuteAssignment == Interpreting /\ Head(ast_nodes).t = "VariableAssignment" /\ Run(Head(ast_nodes))

ExecuteIf == Interpreting /\ Head(ast_nodes).t = "IfStatement" /\ Run(Head(ast_nodes))

ExecuteDeclaration ==
    Interpreting /\ Head(ast_nodes).t = "FunctionDeclaration" /\ Run(Head(ast_nodes))

ExecuteCall == Interpreting /\ Head(ast_nodes).t = "FunctionCall" /\ Run(Head(ast_nodes))

\* the `_` arm: an empty statement or an expression that is not a call
ExecuteOther == Interpreting /\ Head(ast_nodes).t \notin StatementKinds /\ Run(Head(ast_nodes))

InterpretEnd ==
    /\ pc = "interpret" /\ ast_nodes = <<>>
    /\ pc' = "done"
    /\ UNCHANGED <<input, chars, tokens, pos, pstack, ast_nodes, global_env, functions, out, err, trace>>

-----------------------------------------------------------------------------
(* The programs Spec runs: token sequences, written as words, made of at   *)
(* most MaxFragments fragments and the end-marker lex appends.             *)

Word(w) ==
    CASE w = "print" -> Tok("Print")
      [] w = "if" -> Tok("If")
      [] w = "else" -> Tok("Else")
      [] w = "func" -> Tok("Function")
      [] w \in TwoCharHeads -> WithoutEqual(w)
      [] w = "==" -> Tok("EqualEqual")
      [] w = "!=" -> Tok("NotEqual")
      [] w = "<=" -> Tok("LessEqual")
      [] w = ">=" -> Tok("GreaterEqual")
      [] w \in SingleChars -> SingleTok(w)
      [] w \in DigitChars -> NumberTok(FromInt(DigitValue(w)))
      [] w = "'a'" -> StringTok("a")
      [] w = "'b'" -> StringTok("b")
      [] w = "''" -> StringTok("")
      [] OTHER -> IdentifierTok(w)

Words(ws) == [i \in 1..Len(ws) |-> Word(ws[i])]

Fragments ==
    { <<"x", "=", "1", ";">>,
      <<"print", "x", ";">>,
      <<"x", "=", "1", ";", "if", "(", "1", ")", "{", "x", "=", "2", ";", "}", "print", "x", ";">>,
      <<"if", "(", "x", ")", "{", "if", "(", "'a'", ")", "{", "x", "=", "3", ";", "y", "=", "4", ";", "}",
        "print", "x", ";", "}", "else", "{", "z", "=", "5", ";", "print", "z", ";", "}">>,
      <<"func", "f", "(", ")", "{", "if", "(", "1", ")", "{", "x", "=", "2", ";", "}", "print", "x", ";", "}">>,
      <<"func", "f", "(", "a", ")", "{", "print", "a", ";", "a", "=", "'b'", ";",
        "func", "g", "(", ")", "{", "print", "'b'", ";", "}", "}">>,
      <<"x", "=", "1", ";", "f", "(", ")", ";", "print", "x", ";">>,
      <<"y", "=", "f", "(", "x", ")", ";", "print", "y", ";">>,
      <<"func", "f", "(", ")", "{", "}", "y", "=", "f", "(", ")", ";", "print", "y", ";">>,
      <<"print", "u", ";", "y", "=", "f", "(", "1", ")", ";", "print", "g", "(", ")", "+", "'a'", ";",
        "print", "1", "<", "'a'", ";", "print", "'a'", ";">>,
      <<"print", "'a'", "-", "'b'", ";", "print", "-", "'a'", ";", "print", "'a'", "*", "1", ";">>,
      <<"u", ";", "f", "(", ")", "+", "1", ";", "f", "(", "u", ",", "1", ")", ";">>,
      <<"func", "g", "(", ")", "{", "}", "f", "(", "g", "(", ")", ")", ";",
        "y", "=", "g", "(", "g", "(", ")", ")", ";", "g", "(", ")", ";">>,
      <<"print", ";">>,
      <<"if", "(", "1", ")", "{", "print", "1", ";">>,
      <<"func", "f", "(", ")", "{">>,
      <<"if", "(", "0", ")", "{", "}", "else", "x">>,
      <<";">>,
      <<"if", "(", "1", ")", "{", "func", "g", "(", ")", "{", "print", "1", ";", "}", "}",
        "else", "{", "print", "0", "-", "1", ";", "}">>,
      <<"if", "(", "0", ")", "{", "func", "g", "(", ")", "{", "}", "}">>,
      <<"func", "h", "(", "a", ",", "b", ")", "{", "print", "a", ";", "print", "b", ";", "}",
        "a", "=", "1", ";", "h", "(", "2", ",", "a", ")", ";">>,
      <<"func", "d", "(", "a", ",", "a", ")", "{", "print", "a", ";", "}",
        "d", "(", "1", ",", "2", ")", ";">>,
      <<"func", "p", "(", ")", "{", "print", "v", ";", "print", "w", ";", "}",
        "func", "q", "(", ")", "{", "v", "=", "2", ";", "w", "=", "3", ";", "p", "(", ")", ";", "}",
        "v", "=", "1", ";", "p", "(", ")", ";", "q", "(", ")", ";">>,
      <<"k", "(", ")", ";", "func", "k", "(", ")", "{", "print", "1", ";", "}", "k", "(", ")", ";",
        "func", "r", "(", ")", "{", "func", "m", "(", ")", "{", "}", "}",
        "if", "(", "0", ")", "{", "func", "n", "(", ")", "{", "}", "}",
        "m", "(", ")", ";", "n", "(", ")", ";">> }

RECURSIVE ProgramsOf(_)
ProgramsOf(n) ==
    IF n = 0 THEN {<<>>}
    ELSE LET shorter == ProgramsOf(n - 1)
         IN  shorter \cup {p \o Words(f) : p \in shorter, f \in Fragments}

Programs == {Append(p, EOF) : p \in ProgramsOf(MaxFragments)}

-----------------------------------------------------------------------------
(* The specifications.                                                     *)

Idle ==
    /\ pos = 1
    /\ pstack = <<ParseFrame>>
    /\ ast_nodes = <<>>
    /\ global_env = Environment_new(None)
    /\ functions = EmptyMap
    /\ out = <<>>
    /\ err = <<>>
    /\ trace = <<>>

\* main after lex: parse(&tokens) is about to run
Init ==
    /\ pc = "parse"
    /\ input = <<>>
    /\ chars = <<>>
    /\ tokens \in Programs
    /\ Idle

Next ==
    \/ ParseStatement
    \/ ParseStatementErr
    \/ ParseBlockReturn
    \/ ParseBlockReturnErr
    \/ ParseEnd
    \/ ExecutePrint
    \/ ExecuteAssignment
    \/ ExecuteIf
    \/ ExecuteDeclaration
    \/ ExecuteCall
    \/ ExecuteOther
    \/ InterpretEnd

Spec == Init /\ [][Next]_vars

\* lex(input) on a source string
InitLex ==
    /\ pc = "lex"
    /\ input \in Sources
    /\ chars = input
    /\ tokens = <<>>
    /\ Idle

NextLex ==
    \/ LexWhitespace
    \/ LexIdentifier
    \/ LexNumber
    \/ LexString
    \/ LexTwoChar
    \/ LexSingle
    \/ LexUnknown
    \/ LexEnd

\* lex is one sequential loop: it takes its next step whenever it has one
SpecLex == InitLex /\ [][NextLex]_vars /\ WF_vars(NextLex)

-----------------------------------------------------------------------------
(* parse_expression on its own: SpecExpr calls it once on a token sequence *)
(* that ends with the end-marker, as every sequence lex returns does.      *)

\* the tokens SpecExpr enumerates exhaustively
ExprToks ==
    {IdentifierTok("a"), NumberTok(FromInt(1)), Tok("EqualEqual"), Tok("LessThan"),
     Tok("Minus"), Tok("Star"), Tok("Bang")}

\* longer samples with the other operators, names, parentheses and calls
ExprSamples ==
    { Words(<<"a", "-", "b", "-", "c">>),
      Words(<<"a", "+", "b", "*", "c">>),
      Words(<<"a", "==", "b", "<", "c">>),
      Words(<<"-", "!", "a", "*", "b">>),
      Words(<<"(", "a", "+", "b", ")", "*", "c">>),
      Words(<<"a", "/", "(", "b", "/", "c", ")", "/", "1">>),
      Words(<<"a", ">=", "b", "+", "'a'", "<=", "1", "!=", "c", ">", "-", "2">>),
      Words(<<"f", "(", "a", "-", "1", ",", "!", "g", "(", ")", ")", "*", "(", "(", "b", ")", ")">>),
      Words(<<"(", "a", "+", "b">>),
      Words(<<"a", "*", "(", ")", "+", "b">>) }

ExprSequences == SeqsUpTo(ExprToks, MaxExprLen) \cup ExprSamples

InitExpr ==
    /\ pc = "expr"
    /\ input = <<>>
    /\ chars = <<>>
    /\ tokens \in {Append(e, EOF) : e \in ExprSequences}
    /\ Idle

\* parse_expression returns Ok(node) and leaves the iterator after the expression
ParseExpression ==
    /\ pc = "expr"
    /\ LET returns(r) == r.ok /\ ast_nodes' = <<r.node>> /\ pos' = r.pos
       IN  returns(parse_expression(tokens, pos))
    /\ pc' = "parsed"
    /\ UNCHANGED <<pstack, err>> /\ ParseUnchanged

\* parse_expression returns Err(e), which its callers pass on to main
ParseExpressionErr ==
    /\ pc = "expr"
    /\ ParseErr(parse_expression(tokens, pos))
    /\ ParseUnchanged

NextExpr ==
    \/ ParseExpression
    \/ ParseExpressionErr

SpecExpr == InitExpr /\ [][NextExpr]_vars

-----------------------------------------------------------------------------
(* Reading the history.  The calls are recorded when they finish, so the   *)
(* calls made inside call i are the events after trace[i].from and before  *)
(* i.                                                                      *)

Inside(i) == (trace[i].from + 1) .. (i - 1)

\* the calls made directly by a call, in the order they were made, given
\* the last of them
RECURSIVE ChildrenBack(_, _)
ChildrenBack(j, stop) ==
    IF j <= stop THEN <<>> ELSE Append(ChildrenBack(trace[j].from, stop), j)

Children(i) == ChildrenBack(i - 1, trace[i].from)

ChildNodes(i) == [k \in DOMAIN Children(i) |-> trace[Children(i)[k]].node]

ParseFailed == \E i \in DOMAIN err : err[i].text = "Error: {}"

-----------------------------------------------------------------------------
(* Scope isolation.                                                        *)

ScopeExample ==
    Append(Words(<<"x", "=", "1", ";", "if", "(", "1", ")", "{", "x", "=", "2", ";", "}",
                   "print", "x", ";">>), EOF)

\* C1: an if statement or a function call, in statement or in expression
\* position and at any depth, leaves the environment it ran in, with every
\* enclosing scope, exactly as it found it; `x = 1; if (1) { x = 2; } print x;`
\* prints 1.
ScopeIsolation ==
    /\ \A i \in DOMAIN trace :
           trace[i].node.t \in {"IfStatement", "FunctionCall"} => trace[i].env1 = trace[i].env0
    /\ (tokens = ScopeExample /\ pc = "done") => out = <<"1">>

\* statement j gives a name that call i could already see another value
Reassigns(i, j) ==
    /\ trace[j].op = "execute" /\ trace[j].node.t = "VariableAssignment"
    /\ get(trace[i].env0, trace[j].node.name).some
    /\ get(trace[j].env1, trace[j].node.name) # get(trace[i].env0, trace[j].node.name)

\* a call whose body holds an if statement whose branch assigns a variable
\* of the caller
ScopeIsolationWitness ==
    \E i \in DOMAIN trace :
        /\ trace[i].node.t = "FunctionCall"
        /\ \E k \in Inside(i) :
               /\ trace[k].node.t = "IfStatement"
               /\ \E j \in Inside(k) : Reassigns(i, j)

-----------------------------------------------------------------------------
(* Parse errors.                                                           *)

\* C2: once parse has reported an error the run is over: one message, no
\* output, no statement executed or expression evaluated, no variable and no
\* function defined.
ParseErrorIsFatal ==
    ParseFailed =>
        /\ pc = "done"
        /\ Len(err) = 1
        /\ out = <<>>
        /\ trace = <<>>
        /\ ast_nodes = <<>>
        /\ global_env = Environment_new(None)
        /\ functions = EmptyMap

\* an error after complete statements, one of them a print
ParseErrorIsFatalWitness ==
    /\ ParseFailed
    /\ \E k \in DOMAIN pstack[1].statements : pstack[1].statements[k].t = "PrintStatement"

-----------------------------------------------------------------------------
(* Runtime errors.                                                         *)

Arithmetic == {"Plus", "Minus", "Star", "Slash"}

Comparisons ==
    {"EqualEqual", "NotEqual", "LessThan", "GreaterThan", "LessEqual", "GreaterEqual"}

\* the operand types a binary operator is defined for
Supported(l, op, r) ==
    \/ l = "NumberLiteral" /\ r = "NumberLiteral" /\ op \in Arithmetic \cup Comparisons
    \/ l = "StringLiteral" /\ r = "StringLiteral" /\ op \in {"Plus", "EqualEqual", "NotEqual"}
    \/ l # r /\ op = "Plus"

\* the value call i got from the last and from the last but one of the
\* calls it made
LastValue(i) == trace[i - 1].value.v

FirstValue(i) == trace[trace[i - 1].from].value.v

\* the function a call names, when the call's arguments fit it
Callee(i) ==
    LET function == Lookup(trace[i].fns0, trace[i].node.name)
    IN  IF function.some /\ Len(function.v.parameters) = Len(trace[i].node.arguments)
        THEN function ELSE None

\* the messages call i has to write itself, apart from those of the calls
\* it made: the runtime errors
Failure(i) ==
    LET e == trace[i]
        n == e.node
    IN  CASE n.t = "FunctionCall" ->
                 IF Callee(i).some THEN {}
                 ELSE IF Lookup(e.fns0, n.name).some THEN {ArityError(n.name)}
                 ELSE {UndefinedFunction(n.name)}
          [] e.op = "evaluate" /\ n.t = "Identifier" ->
                 IF get(e.env0, n.name).some THEN {} ELSE {UndefinedVariable(n.name)}
          [] e.op = "evaluate" /\ n.t = "BinaryExpression" ->
                 IF Supported(FirstValue(i).t, n.operator.k, LastValue(i).t) THEN {}
                 ELSE {[text |-> "Error: Unsupported operator for strings"],
                       [text |-> "Error: Unsupported operator for string and number"],
                       [text |-> "Error: Unsupported operator for number and string"]}
          [] e.op = "evaluate" /\ n.t = "UnaryExpression" ->
                 IF LastValue(i).t = "NumberLiteral" THEN {}
                 ELSE {[text |-> "Error: Invalid operand for unary operator"]}
          [] OTHER -> {}

\* the number of messages written when the calls made by call i were over
InnerErr(i) == IF Children(i) = <<>> THEN trace[i].err0 ELSE trace[i - 1].err1

\* a failing expression writes one message and yields 0.0, and nothing
\* else writes a message
OneMessage(i) ==
    IF Failure(i) = {} THEN trace[i].err1 = InnerErr(i)
    ELSE /\ trace[i].err1 = InnerErr(i) + 1
         /\ err[trace[i].err1] \in Failure(i)
         /\ trace[i].op = "evaluate" => trace[i].value = Some(Zero)

\* a print or an assignment uses the value its expression yielded
Completes(i) ==
    LET e == trace[i]
    IN  CASE e.op = "execute" /\ e.node.t = "PrintStatement" ->
                 /\ e.out1 = trace[i - 1].out1 + 1
                 /\ out[e.out1] = PrintedLine(LastValue(i))
          [] e.op = "execute" /\ e.node.t = "VariableAssignment" ->
                 get(e.env1, e.node.name) = Some(LastValue(i))
          [] OTHER -> TRUE

\* the statements an if statement or a call has to run, after its condition
\* or its arguments
Branch(i) ==
    LET n == trace[i].node
    IN  CASE n.t = "IfStatement" ->
                 IF is_truthy(trace[Children(i)[1]].value.v) THEN <<n.condition>> \o n.then_branch
                 ELSE IF n.else_branch.some THEN <<n.condition>> \o n.else_branch.v
                 ELSE <<n.condition>>
          [] n.t = "FunctionCall" ->
                 IF Callee(i).some THEN n.arguments \o Callee(i).v.body ELSE <<>>

\* the top-level statements executed so far
TopLevel == ChildrenBack(Len(trace), 0)

\* every statement list is run in full and in order
RunsInFull ==
    /\ \A i \in DOMAIN trace :
           trace[i].node.t \in {"IfStatement", "FunctionCall"} => ChildNodes(i) = Branch(i)
    /\ pc \in {"interpret", "done"} /\ ~ParseFailed =>
           [k \in DOMAIN TopLevel |-> trace[TopLevel[k]].node] \o ast_nodes = pstack[1].statements
    /\ pc = "done" => ast_nodes = <<>>

\* C3: a runtime error (undefined variable, undefined function, wrong number
\* of arguments, unsupported operator or operand types) writes exactly one
\* message and the failing expression yields 0.0; the print or assignment
\* around it completes with that value, and every statement list is still
\* executed in full and in order.
RuntimeErrorsAreNotFatal ==
    /\ \A i \in DOMAIN trace : OneMessage(i) /\ Completes(i)
    /\ RunsInFull

Texts == {err[k].text : k \in DOMAIN err}

\* the four kinds of error in one run, and the statement after them executed
RuntimeErrorsAreNotFatalWitness ==
    /\ pc = "done"
    /\ {UndefinedVariable("u").text, UndefinedFunction("g").text, ArityError("f").text,
        "Error: Unsupported operator for number and string"} \subseteq Texts
    /\ out # <<>> /\ out[Len(out)] = "a"
    /\ \E i \in DOMAIN trace : Failure(i) # {} /\ trace[i].op = "evaluate" /\ i < Len(trace) - 1

-----------------------------------------------------------------------------
(* Function calls in expressions.                                          *)

NonReturnExample ==
    Append(Words(<<"func", "f", "(", ")", "{", "}", "y", "=", "f", "(", ")", ";",
                   "print", "y", ";">>), EOF)

\* C4: a function call in an expression yields 0.0, whatever the function
\* and whatever its body does; `func f() { } y = f(); print y;` prints 0.
CallYieldsZero ==
    /\ \A i \in DOMAIN trace :
           trace[i].op = "evaluate" /\ trace[i].node.t = "FunctionCall" =>
               trace[i].value = Some(Zero)
    /\ (tokens = NonReturnExample /\ pc = "done") => out = <<"0">>

\* a call in an expression whose body printed and assigned
CallYieldsZeroWitness ==
    \E i \in DOMAIN trace :
        /\ trace[i].op = "evaluate" /\ trace[i].node.t = "FunctionCall"
        /\ trace[i].out1 > trace[i].out0
        /\ \E j \in Inside(i) : trace[j].op = "execute" /\ trace[j].node.t = "VariableAssignment"

-----------------------------------------------------------------------------
(* Unterminated blocks.                                                    *)

\* the loop of parse_block is looking at the end-marker
AtEndInsideBlock == pc = "parse" /\ Len(pstack) > 1 /\ Peek(tokens, pos).k = "EOF"

\* C5: parse ends on every token sequence; when it meets the end-marker
\* inside an if-block or a function body, before the matching `}`, its next
\* step is to return an error.
UnterminatedBlockIsAnError == [][AtEndInsideBlock => ParseFailed']_vars

-----------------------------------------------------------------------------
(* Expression statements.                                                  *)

Expressions ==
    {"Identifier", "BinaryExpression", "UnaryExpression", "FunctionCall",
     "NumberLiteral", "StringLiteral"}

\* executing statement i began with evaluating the statement as an expression
Evaluated(i) ==
    /\ Children(i) # <<>>
    /\ trace[i - 1].op = "evaluate"
    /\ trace[i - 1].node = trace[i].node

\* C6: an expression statement is evaluated when it is executed: a bare call
\* runs the function, and an identifier or a compound expression is
\* evaluated, with the calls in it run and its runtime errors reported.
ExpressionStatementsAreEvaluated ==
    \A i \in DOMAIN trace :
        trace[i].op = "execute" /\ trace[i].node.t \in Expressions =>
            IF trace[i].node.t = "FunctionCall"
            THEN ChildNodes(i) = Branch(i) /\ trace[i].err1 = InnerErr(i) + Cardinality(Failure(i))
            ELSE Evaluated(i)

-----------------------------------------------------------------------------
(* The end-marker.                                                         *)

\* the end-marker is in the tokens once, as the last of them
OneEOFLast ==
    /\ tokens # <<>>
    /\ tokens[Len(tokens)] = EOF
    /\ \A k \in 1 .. (Len(tokens) - 1) : tokens[k] # EOF

\* C7: on every source string lex returns, and what it returns holds the
\* end-marker exactly once, as its last token.
LexEndsWithOneEOF == <>(pc = "lexed") /\ [](pc = "lexed" => OneEOFLast)

\* lex has returned from a source of a discarded character followed by a
\* string literal that is not closed
LexEndsWithOneEOFWitness ==
    /\ pc = "lexed"
    /\ input = <<"#", "\"", "i">>
    /\ tokens = <<StringTok("i"), EOF>>

-----------------------------------------------------------------------------
(* The function table.                                                     *)

IsDeclaration(j) == trace[j].op = "execute" /\ trace[j].node.t = "FunctionDeclaration"

\* the declarations of a name executed among the first n calls
DeclarationsOf(name, n) == {j \in 1 .. n : IsDeclaration(j) /\ trace[j].node.name = name}

Latest(js) == CHOOSE j \in js : \A k \in js : k <= j

\* a function table that holds, for each name, the declaration executed
\* last among the first n calls, wherever it was executed
TableAfter(fns, n) ==
    /\ DOMAIN fns = {trace[j].node.name : j \in {k \in 1 .. n : IsDeclaration(k)}}
    /\ \A name \in DOMAIN fns : fns[name] = trace[Latest(DeclarationsOf(name, n))].node

\* C8: the function table is one for the whole run: a declaration, in
\* whatever scope it is executed, sets the entry of its name and changes no
\* variable; the entry outlives the block or call that held the declaration,
\* and a call runs the declaration executed last.
FunctionTableIsGlobal ==
    /\ \A i \in DOMAIN trace :
           /\ TableAfter(trace[i].fns0, trace[i].from)
           /\ TableAfter(trace[i].fns1, i)
           /\ IsDeclaration(i) => trace[i].env1 = trace[i].env0
           /\ trace[i].node.t = "FunctionCall" /\ Callee(i).some =>
                  ChildNodes(i) = trace[i].node.arguments
                                  \o trace[Latest(DeclarationsOf(trace[i].node.name,
                                                                 trace[i].from))].node.body
    /\ TableAfter(functions, Len(trace))

\* a declaration inside a function body replaces a top-level declaration,
\* and a top-level call after that call runs it
FunctionTableIsGlobalWitness ==
    \E d \in DOMAIN trace : \E c \in DOMAIN trace : \E k \in DOMAIN trace :
        /\ IsDeclaration(d) /\ DeclarationsOf(trace[d].node.name, d - 1) # {}
        /\ trace[c].node.t = "FunctionCall" /\ d \in Inside(c)
        /\ k > c /\ trace[k].op = "execute" /\ trace[k].node.t = "FunctionCall"
        /\ trace[k].env0.enclosing = None
        /\ Callee(k) = Some(trace[d].node)
        /\ trace[k].out1 > trace[k].out0

-----------------------------------------------------------------------------
(* Assignment.                                                             *)

\* the mappings of a scope chain, the innermost first
RECURSIVE Chain(_)
Chain(env) ==
    <<env.values>> \o (IF env.enclosing.some THEN Chain(env.enclosing.v) ELSE <<>>)

Holders(chain, name) == {k \in DOMAIN chain : name \in DOMAIN chain[k]}

Nearest(ks) == CHOOSE k \in ks : \A j \in ks : k <= j

\* mapping `after` is mapping `before` with name bound to value
Rebound(before, after, name, value) ==
    /\ DOMAIN after = DOMAIN before \cup {name}
    /\ after[name] = value
    /\ \A other \in DOMAIN before \ {name} : after[other] = before[other]

\* C9: an assignment replaces the binding of the name in the nearest scope of
\* the chain that has one and creates none; when no scope has one it creates
\* the binding in the current scope; nothing else changes, and the name then
\* looks up to the assigned value.
AssignmentSemantics ==
    \A i \in DOMAIN trace :
        trace[i].op = "execute" /\ trace[i].node.t = "VariableAssignment" =>
            LET name == trace[i].node.name
                before == Chain(trace[i].env0)
                after == Chain(trace[i].env1)
                holders == Holders(before, name)
                target == IF holders = {} THEN 1 ELSE Nearest(holders)
            IN  /\ Len(after) = Len(before)
                /\ \A k \in DOMAIN before :
                       IF k = target THEN Rebound(before[k], after[k], name, LastValue(i))
                       ELSE after[k] = before[k]
                /\ holders # {} => DOMAIN after[target] = DOMAIN before[target]
                /\ get(trace[i].env1, name) = Some(LastValue(i))

\* in a nested scope, one assignment to a name only an enclosing scope
\* defines and one to a name no scope defines
AssignmentSemanticsWitness ==
    \E i \in DOMAIN trace : \E j \in DOMAIN trace :
        /\ trace[i].op = "execute" /\ trace[i].node.t = "VariableAssignment"
        /\ trace[j].op = "execute" /\ trace[j].node.t = "VariableAssignment"
        /\ Holders(Chain(trace[i].env0), trace[i].node.name) # {}
        /\ Nearest(Holders(Chain(trace[i].env0), trace[i].node.name)) > 1
        /\ get(trace[i].env0, trace[i].node.name) # Some(LastValue(i))
        /\ Holders(Chain(trace[j].env0), trace[j].node.name) = {}
        /\ Len(Chain(trace[j].env0)) > 1

-----------------------------------------------------------------------------
(* Failed calls.                                                           *)

FailedCall(i) == trace[i].node.t = "FunctionCall" /\ ~Callee(i).some

\* C10: a call of a name the function table does not hold, or with a number
\* of arguments other than the number of parameters, writes one message and
\* does nothing else, as a statement and in an expression: no argument is
\* evaluated, no body is run, nothing is printed, and the environment and
\* the function table stay as they were.
FailedCallIsNoOp ==
    \A i \in DOMAIN trace :
        FailedCall(i) =>
            /\ trace[i].from = i - 1
            /\ trace[i].err1 = trace[i].err0 + 1
            /\ err[trace[i].err1] \in Failure(i)
            /\ trace[i].out1 = trace[i].out0
            /\ trace[i].env1 = trace[i].env0
            /\ trace[i].fns1 = trace[i].fns0

\* call i has an argument that is a call of a declared function
HasCallArgument(i) ==
    \E a \in DOMAIN trace[i].node.arguments :
        /\ trace[i].node.arguments[a].t = "FunctionCall"
        /\ Lookup(trace[i].fns0, trace[i].node.arguments[a].name).some

\* a failed call as a statement and a failed call in an expression, each
\* with such an argument
FailedCallIsNoOpWitness ==
    \E i \in DOMAIN trace : \E j \in DOMAIN trace :
        /\ FailedCall(i) /\ trace[i].op = "execute" /\ HasCallArgument(i)
        /\ FailedCall(j) /\ trace[j].op = "evaluate" /\ HasCallArgument(j)

-----------------------------------------------------------------------------
(* Arguments and parameters.                                               *)

\* call i ran a function that has a body
RanBody(i) ==
    trace[i].node.t = "FunctionCall" /\ Callee(i).some /\ Callee(i).v.body # <<>>

\* the environment the first statement of the body of call i was given
LocalEnv(i) == trace[Children(i)[Len(trace[i].node.arguments) + 1]].env0

\* the value of the a-th argument of call i
ArgumentValue(i, a) == trace[Children(i)[a]].value.v

\* the arguments of a successful call are evaluated one after the other in
\* the environment of the caller
EvaluatedInCaller(i) ==
    \A a \in DOMAIN trace[i].node.arguments :
        /\ trace[Children(i)[a]].op = "evaluate"
        /\ trace[Children(i)[a]].node = trace[i].node.arguments[a]
        /\ trace[Children(i)[a]].env0 = trace[i].env0

\* the body runs in a new environment around the caller's, and the mapping of
\* the new environment holds the parameters from the first statement to the last
ParametersShadow(i) ==
    /\ LocalEnv(i).enclosing = Some(trace[i].env0)
    /\ DOMAIN LocalEnv(i).values = {Callee(i).v.parameters[a] : a \in DOMAIN Callee(i).v.parameters}
    /\ \A k \in (Len(trace[i].node.arguments) + 1) .. Len(Children(i)) :
           DOMAIN LocalEnv(i).values \subseteq DOMAIN trace[Children(i)[k]].env0.values

\* C11 as stated: on a successful call the arguments are evaluated left to
\* right in the caller's scope, and the new scope's own mapping binds every
\* parameter to the value of the argument at its position.
ArgumentsBoundByPosition ==
    \A i \in DOMAIN trace :
        /\ trace[i].node.t = "FunctionCall" /\ Callee(i).some => EvaluatedInCaller(i)
        /\ RanBody(i) =>
               /\ ParametersShadow(i)
               /\ \A a \in DOMAIN Callee(i).v.parameters :
                      LocalEnv(i).values[Callee(i).v.parameters[a]] = ArgumentValue(i, a)

\* the position a is the last one of its parameter name
LastOfItsName(parameters, a) ==
    \A b \in DOMAIN parameters : b > a => parameters[b] # parameters[a]

\* C11, amended: on a successful call the arguments are evaluated left to
\* right in the caller's scope, and the new scope's own mapping binds every
\* parameter name to the value of the argument at the last position that
\* has this name (at its own position when the names are distinct).
ArgumentsBoundInOrder ==
    \A i \in DOMAIN trace :
        /\ trace[i].node.t = "FunctionCall" /\ Callee(i).some => EvaluatedInCaller(i)
        /\ RanBody(i) =>
               /\ ParametersShadow(i)
               /\ \A a \in DOMAIN Callee(i).v.parameters :
                      LastOfItsName(Callee(i).v.parameters, a) =>
                          LocalEnv(i).values[Callee(i).v.parameters[a]] = ArgumentValue(i, a)

\* a call whose second argument is the name of the first parameter, which
\* the caller has with a value other than the first argument's
ArgumentsBoundInOrderWitness ==
    \E i \in DOMAIN trace :
        /\ RanBody(i) /\ Len(trace[i].node.arguments) = 2
        /\ trace[i].node.arguments[2] = Identifier(Callee(i).v.parameters[1])
        /\ get(trace[i].env0, Callee(i).v.parameters[1]).some
        /\ get(trace[i].env0, Callee(i).v.parameters[1]).v # ArgumentValue(i, 1)
        /\ get(LocalEnv(i), Callee(i).v.parameters[1]).v = ArgumentValue(i, 1)
        /\ get(LocalEnv(i), Callee(i).v.parameters[2]).v # ArgumentValue(i, 1)

-----------------------------------------------------------------------------
(* Operator precedence.  The reference grammar                             *)
(*   equality       ::= comparison { ("==" | "!=") comparison }            *)
(*   comparison     ::= additive { ("<" | ">" | "<=" | ">=") additive }    *)
(*   additive       ::= multiplicative { ("+" | "-") multiplicative }      *)
(*   multiplicative ::= unary { ("*" | "/") unary }                        *)
(*   unary          ::= ("-" | "!") unary | primary                        *)
(*   primary        ::= number | string | name | name "(" args ")"         *)
(*                    | "(" equality ")"                                   *)
(* with every binary level grouping to the left, read top-down: an         *)
(* expression splits at the last operator of the loosest level that is     *)
(* outside every parenthesis.                                              *)

\* the level of a binary operator, the loosest first
Level(tok) ==
    CASE tok.k \in {"EqualEqual", "NotEqual"} -> 1
      [] tok.k \in {"LessThan", "GreaterThan", "LessEqual", "GreaterEqual"} -> 2
      [] tok.k \in {"Plus", "Minus"} -> 3
      [] tok.k \in {"Star", "Slash"} -> 4
      [] OTHER -> 0

Count(toks, kind, n) == Cardinality({j \in 1 .. n : toks[j].k = kind})

\* the parentheses open before position k
Depth(toks, k) == Count(toks, "LeftParen", k - 1) - Count(toks, "RightParen", k - 1)

EndsOperand(tok) == tok.k \in {"Identifier", "NumberLiteral", "StringLiteral", "RightParen"}

\* the positions of the binary operators outside every parenthesis
BinaryAt(toks) ==
    {k \in 2 .. Len(toks) : Level(toks[k]) > 0 /\ EndsOperand(toks[k - 1]) /\ Depth(toks, k) = 0}

\* where the expression splits
SplitAt(toks) ==
    LET loosest == CHOOSE k \in BinaryAt(toks) : \A j \in BinaryAt(toks) : Level(toks[k]) <= Level(toks[j])
    IN  CHOOSE k \in BinaryAt(toks) :
            /\ Level(toks[k]) = Level(toks[loosest])
            /\ \A j \in BinaryAt(toks) : Level(toks[j]) = Level(toks[k]) => j <= k

\* toks[from] is `(` and the last token is the `)` that closes it
Encloses(toks, from) ==
    /\ Len(toks) > from
    /\ toks[from].k = "LeftParen" /\ toks[Len(toks)].k = "RightParen"
    /\ \A k \in (from + 1) .. Len(toks) : Depth(toks, k) >= 1 + Depth(toks, from)

Both(l, r, Build(_, _)) == IF l.some /\ r.some THEN Some(Build(l.v, r.v)) ELSE None

RECURSIVE RefTree(_), RefArguments(_)

\* the tree of the reference grammar for a token sequence, when it has one
RefTree(toks) ==
    CASE toks = <<>> -> None
      [] toks # <<>> /\ BinaryAt(toks) # {} ->
             Both(RefTree(SubSeq(toks, 1, SplitAt(toks) - 1)),
                  RefTree(SubSeq(toks, SplitAt(toks) + 1, Len(toks))),
                  LAMBDA l, r : BinaryExpression(l, toks[SplitAt(toks)], r))
      [] toks # <<>> /\ BinaryAt(toks) = {} /\ Head(toks).k \in {"Minus", "Bang"} ->
             Both(RefTree(Tail(toks)), Some(Head(toks)),
                  LAMBDA operand, operator : UnaryExpression(operator, operand))
      [] OTHER ->
             CASE Len(toks) = 1 /\ toks[1].k = "NumberLiteral" -> Some(NumberLiteral(toks[1].n))
               [] Len(toks) = 1 /\ toks[1].k = "StringLiteral" -> Some(StringLiteral(toks[1].s))
               [] Len(toks) = 1 /\ toks[1].k = "Identifier" -> Some(Identifier(toks[1].s))
               [] Encloses(toks, 1) -> RefTree(SubSeq(toks, 2, Len(toks) - 1))
               [] toks[1].k = "Identifier" /\ Encloses(toks, 2) ->
                      Both(RefArguments(SubSeq(toks, 3, Len(toks) - 1)), Some(toks[1].s),
                           LAMBDA arguments, name : FunctionCall(name, arguments))
               [] OTHER -> None

\* the trees of a list of expressions separated by commas
RefArguments(toks) ==
    LET commas == {k \in DOMAIN toks : toks[k].k = "Comma" /\ Depth(toks, k) = 0}
        first == CHOOSE k \in commas : \A j \in commas : k <= j
    IN  IF toks = <<>> THEN Some(<<>>)
        ELSE IF commas = {}
        THEN Both(RefTree(toks), Some(<<>>), LAMBDA arg, rest : <<arg>>)
        ELSE Both(RefTree(SubSeq(toks, 1, first - 1)),
                  RefArguments(SubSeq(toks, first + 1, Len(toks))),
                  LAMBDA arg, rest : IF rest = <<>> THEN <<>> ELSE <<arg>> \o rest)

\* the token sequence parse_expression was called on, without the end-marker
Expression == SubSeq(tokens, 1, Len(tokens) - 1)

\* parse_expression returned a tree for the whole sequence
ParsedWhole == pc = "parsed" /\ pos = Len(tokens)

Tree(ws) == RefTree(Words(ws)).v

\* the trees of the four examples, written out
PrecedenceExamples ==
    /\ Tree(<<"a", "-", "b", "-", "c">>) =
           BinaryExpression(BinaryExpression(Identifier("a"), Tok("Minus"), Identifier("b")),
                            Tok("Minus"), Identifier("c"))
    /\ Tree(<<"a", "+", "b", "*", "c">>) =
           BinaryExpression(Identifier("a"), Tok("Plus"),
                            BinaryExpression(Identifier("b"), Tok("Star"), Identifier("c")))
    /\ Tree(<<"a", "==", "b", "<", "c">>) =
           BinaryExpression(Identifier("a"), Tok("EqualEqual"),
                            BinaryExpression(Identifier("b"), Tok("LessThan"), Identifier("c")))
    /\ Tree(<<"-", "!", "a", "*", "b">>) =
           BinaryExpression(UnaryExpression(Tok("Minus"),
                                            UnaryExpression(Tok("Bang"), Identifier("a"))),
                            Tok("Star"), Identifier("b"))

\* C12: on every token sequence that the reference grammar gives a tree,
\* parse_expression returns that tree and stops at the end of the
\* sequence; on a sequence without commas that the grammar gives none it
\* does not return a tree for the whole sequence; the reference trees of
\* `a - b - c`, `a + b * c`, `a == b < c` and `-!a * b` are the stated ones.
PrecedenceGrammar ==
    /\ pc \in {"parsed", "done"} =>
           IF RefTree(Expression).some
           THEN ParsedWhole /\ ast_nodes = <<RefTree(Expression).v>>
           ELSE Count(Expression, "Comma", Len(Expression)) = 0 => ~ParsedWhole
    /\ PrecedenceExamples

\* parse_expression has returned the tree of `-!a * b`
PrecedenceGrammarWitness ==
    /\ ParsedWhole
    /\ Expression = Words(<<"-", "!", "a", "*", "b">>)
    /\ ast_nodes = <<Tree(<<"-", "!", "a", "*", "b">>)>>

-----------------------------------------------------------------------------
(* Free names of a function body.                                          *)

DynamicExample ==
    Append(Words(<<"func", "p", "(", ")", "{", "print", "v", ";", "print", "w", ";", "}",
                   "func", "q", "(", ")", "{", "v", "=", "2", ";", "w", "=", "3", ";",
                   "p", "(", ")", ";", "}",
                   "v", "=", "1", ";", "p", "(", ")", ";", "q", "(", ")", ";">>), EOF)

\* j is the evaluation of a name in the body of call i, not in its
\* arguments and not inside a call the body makes
ReadsName(i, j) ==
    /\ j \in Inside(i)
    /\ trace[j].op = "evaluate" /\ trace[j].node.t = "Identifier"
    /\ \A a \in DOMAIN trace[i].node.arguments : j > Children(i)[a]
    /\ \A c \in Inside(i) : trace[c].node.t = "FunctionCall" => j \notin Inside(c)

\* the name j reads is free in the body of call i at that point: it is no
\* parameter and the body has not assigned it before
FreeAt(i, j) ==
    /\ \A a \in DOMAIN Callee(i).v.parameters : Callee(i).v.parameters[a] # trace[j].node.name
    /\ \A k \in Inside(i) :
           k < j /\ trace[k].op = "execute" /\ trace[k].node.t = "VariableAssignment" =>
               trace[k].node.name # trace[j].node.name

\* what a name is worth at the call site of call i
AtCallSite(i, name) ==
    IF get(trace[i].env0, name).some THEN get(trace[i].env0, name).v ELSE Zero

\* C13: the body of a called function runs in a new scope whose enclosing
\* scope is the scope of the call site as it was at the call, and a free
\* name of the body reads what the name is worth at the call site (0.0 when
\* it has no binding there), not what it was worth where the function was
\* declared.
DynamicScoping ==
    /\ \A i \in DOMAIN trace :
           RanBody(i) =>
               /\ LocalEnv(i).enclosing = Some(trace[i].env0)
               /\ \A j \in Inside(i) :
                      ReadsName(i, j) /\ FreeAt(i, j) =>
                          trace[j].value = Some(AtCallSite(i, trace[j].node.name))
    /\ (tokens = DynamicExample /\ pc = "done") => out = <<"1", "0", "2", "3">>

\* call i read name as a free name
ReadFree(i, name) ==
    \E j \in Inside(i) : ReadsName(i, j) /\ FreeAt(i, j) /\ trace[j].node.name = name

\* one function called from two scopes where a free name has different
\* values, the second call made by a function that has another free name of
\* the callee as a variable of its own
DynamicScopingWitness ==
    \E i \in DOMAIN trace : \E k \in DOMAIN trace : \E n \in {"v"} : \E m \in {"w"} :
        /\ RanBody(i) /\ RanBody(k) /\ trace[i].node.name = trace[k].node.name
        /\ ReadFree(i, n) /\ ReadFree(k, n) /\ ReadFree(k, m)
        /\ get(trace[i].env0, n).some /\ get(trace[k].env0, n).some
        /\ get(trace[i].env0, n) # get(trace[k].env0, n)
        /\ trace[k].env0.enclosing.some /\ m \in DOMAIN trace[k].env0.values
        /\ ~get(trace[i].env0, m).some

-----------------------------------------------------------------------------
(* Declarations take effect when they are executed.                        *)

HoistExample ==
    Append(Words(<<"k", "(", ")", ";", "func", "k", "(", ")", "{", "print", "1", ";", "}",
                   "k", "(", ")", ";",
                   "func", "r", "(", ")", "{", "func", "m", "(", ")", "{", "}", "}",
                   "if", "(", "0", ")", "{", "func", "n", "(", ")", "{", "}", "}",
                   "m", "(", ")", ";", "n", "(", ")", ";">>), EOF)

\* the names the first n calls declared
DeclaredBy(n) == {trace[j].node.name : j \in {k \in 1 .. n : IsDeclaration(k)}}

\* the names declared anywhere in a list of statements
RECURSIVE Declares(_)
Declares(nodes) ==
    IF nodes = <<>> THEN {}
    ELSE LET node == Head(nodes)
             inner == CASE node.t = "FunctionDeclaration" -> {node.name} \cup Declares(node.body)
                        [] node.t = "IfStatement" ->
                               Declares(node.then_branch)
                               \cup (IF node.else_branch.some THEN Declares(node.else_branch.v) ELSE {})
                        [] OTHER -> {}
         IN  inner \cup Declares(Tail(nodes))

\* a declaration executed inside an if statement or a call is a statement
\* of the branch taken or of the body run
InBranch(i) ==
    \A c \in DOMAIN Children(i) :
        IsDeclaration(Children(i)[c]) =>
            c \in DOMAIN Branch(i) /\ Branch(i)[c] = trace[Children(i)[c]].node

\* C14: a call made when no declaration of its name has been executed is
\* an undefined-function error that runs nothing, whatever the rest of the
\* source declares; the function table holds the names of the declarations
\* executed and no other, and a declaration is executed only as a statement
\* of a branch taken or a body run.
NoHoisting ==
    /\ \A i \in DOMAIN trace :
           /\ DOMAIN trace[i].fns0 = DeclaredBy(trace[i].from)
           /\ trace[i].node.t \in {"IfStatement", "FunctionCall"} => InBranch(i)
           /\ trace[i].node.t = "FunctionCall" /\ trace[i].node.name \notin DeclaredBy(trace[i].from) =>
                  /\ trace[i].from = i - 1
                  /\ trace[i].err1 = trace[i].err0 + 1
                  /\ err[trace[i].err1] = UndefinedFunction(trace[i].node.name)
                  /\ trace[i].out1 = trace[i].out0
    /\ DOMAIN functions = DeclaredBy(Len(trace))
    /\ (tokens = HoistExample /\ pc = "done") =>
           /\ out = <<"1">>
           /\ err = <<UndefinedFunction("k"), UndefinedFunction("m"), UndefinedFunction("n")>>
           /\ DOMAIN functions = {"k", "r"}

\* a run with a call before the declaration of its name and one after it,
\* and with declarations, in a branch not taken and in a body not run, that
\* are not in the function table at the end
NoHoistingWitness ==
    /\ pc = "done" /\ ~ParseFailed
    /\ \E i \in DOMAIN trace : \E d \in DOMAIN trace : \E k \in DOMAIN trace :
           /\ i < d /\ d < k
           /\ trace[i].node.t = "FunctionCall" /\ FailedCall(i)
           /\ IsDeclaration(d) /\ trace[d].node.name = trace[i].node.name
           /\ trace[k].node.t = "FunctionCall" /\ Callee(k) = Some(trace[d].node)
    /\ Cardinality(Declares(pstack[1].statements) \ DOMAIN functions) >= 2

====
